---- MODULE Spec2Model ----
(***************************************************************************)
(* isl_astar.h (v0.6.0): A* search over caller-owned nodes, with an        *)
(* indirect binary heap as open list and a ledger of touched nodes.        *)
(*                                                                         *)
(* Nodes are 1..NumNodes, NULL is 0.  The caller's callbacks are the       *)
(* variables cost (eval_cost and, through its domain of edges,             *)
(* next_neighbor, which yields the neighbors in increasing node order),    *)
(* est (estimate_cost) and the goal predicate passed with each call.       *)
(* One call of isla_find_path is the steps FindPath (entry up to the main  *)
(* loop), Iterate (one turn of the main loop up to the neighbor loop, or   *)
(* the return) and Neighbor (one turn of the neighbor loop).               *)
(***************************************************************************)
EXTENDS Integers, Sequences, FiniteSets, TLC

\* ------------------------------------------------------------ bounds
NumNodes == 6
MaxCost == 2
MaxEst == 1
MaxCalls == 2

\* ------------------------------------------------- program constants
NULL == 0
ISLA_NODE_DEFAULT == 0
ISLA_NODE_OPENED == 1
ISLA_NODE_CLOSED == 2
ISLA_OK == 0
ISLA_BLOCKED == 1
ISLA_ERROR_BAD_ALLOC == 2
ISLA_ERROR_BAD_REALLOC == 3
ISLA_ERROR_BAD_ARGUMENTS == 4
ISLA_MAX_NEIGHBORS == 16
UsedInitial == 4
PathInitial == 4

Nodes == 1..NumNodes
\* the content of a slot that was never written: an indeterminate value
Uninit == -1
\* an indeterminate value that is no valid node address
Wild == -2
\* no edge between two nodes
NoEdge == -1
\* slots of a list that the model keeps: no access goes beyond them
Slots == 0..NumNodes

VARIABLES
  cost,      \* cost[a][b]: eval_cost(a, b), NoEdge when b is no neighbor of a
  est,       \* est[a][b]: estimate_cost(a, b)
  node,      \* node[n]: the fields of isla_node n
  open,      \* the open list (openlist)
  used,      \* the ledger of touched nodes (usedlist)
  cache,     \* the caller's scratch lists (cache_open, cache_used), if any
  call,      \* the frame of the running call of isla_find_path
  alloc,     \* the allocator: requests of this call, the one that fails
  result,    \* the isla_result of the last call
  pc,        \* "idle", "loop", "expand", "done", "reversed", "crashed", "hung"
  hist       \* the calls made so far, each with the result the caller got

vars == <<cost, est, node, open, used, cache, call, alloc, result, pc, hist>>

\* --------------------------------------------------------------- nodes
DefaultNode ==
  [index |-> 0, g |-> 0, f |-> 0, status |-> ISLA_NODE_DEFAULT, parent |-> NULL]

AllDefault == [n \in Nodes |-> DefaultNode]

\* ------------------------------------------------- isla_path as a list
\* nodes: the slots of the backing storage; buf: the identity of the backing
\* storage (0: none); owner: who allocated the list; frees: how many times
\* isla_destroy_path was applied to it
NoList ==
  [nodes |-> [s \in Slots |-> Uninit], allocated |-> 0, length |-> 0,
   buf |-> 0, owner |-> "none", frees |-> 0]

\* isla__path_create: the list on success (the caller tests the allocator)
PathCreate(n, who, id) ==
  [nodes |-> [s \in Slots |-> Uninit], allocated |-> IF n <= 0 THEN 1 ELSE n,
   length |-> 0, buf |-> id, owner |-> who, frees |-> 0]

\* isla_destroy_path on a list of the engine or of the caller
DestroyPath(l) ==
  IF l.owner = "none" THEN l
  ELSE [NoList EXCEPT !.frees = l.frees + 1, !.owner = "freed"]

\* the loop of a reversal that keeps no copy of the slot it overwrites
RECURSIVE ReverseLoopNoTmp(_, _)
ReverseLoopNoTmp(l, i) ==
  IF i < l.length \div 2
  THEN LET copied == [l EXCEPT !.nodes[i] = l.nodes[l.length - i - 1]]
       IN  ReverseLoopNoTmp(
             [copied EXCEPT !.nodes[l.length - i - 1] = copied.nodes[i]], i + 1)
  ELSE l

ReversePathNoTmp(l) == IF l.buf = 0 THEN l ELSE ReverseLoopNoTmp(l, 0)

\* isla_reverse_path: the loop from i on, half = path->length / 2
RECURSIVE ReverseLoop(_, _)
ReverseLoop(l, i) ==
  IF i < l.length \div 2
  THEN LET tmp == l.nodes[i]
           copied == [l EXCEPT !.nodes[i] = l.nodes[l.length - i - 1]]
       IN  ReverseLoop([copied EXCEPT !.nodes[l.length - i - 1] = tmp], i + 1)
  ELSE l

\* isla_reverse_path; a list without backing storage stands for path == NULL
ReversePath(l) == IF l.buf = 0 THEN l ELSE ReverseLoop(l, 0)

\* isla__path_grow succeeded: new backing storage, the old content copied
PathGrow(l, newalloc, id) == [l EXCEPT !.allocated = newalloc, !.buf = id]

NeedsGrow(l) == l.allocated <= l.length

\* isla__path_push when the growth, if one is needed, succeeds
PathPush(l, n, id) ==
  LET g == IF NeedsGrow(l) THEN PathGrow(l, l.allocated * 2, id) ELSE l
  IN  [g EXCEPT !.nodes[l.length] = n, !.length = l.length + 1]

\* ------------------------------------------------------ binary heap
\* A heap operation works on m = [h, node, ub]: the list, the node fields
\* (it writes index, it reads f) and ub, set once the operation dereferences
\* a slot that holds no node address.
Mem(h, nd) == [h |-> h, node |-> nd, ub |-> FALSE, pos |-> 0]

IsNode(x) == x \in Nodes

\* isla__heap_swap
HeapSwap(m, index1, index2) ==
  LET x == m.h.nodes[index1]
      y == m.h.nodes[index2]
  IN  IF ~IsNode(x) \/ ~IsNode(y) THEN [m EXCEPT !.ub = TRUE]
      ELSE [m EXCEPT !.h.nodes = [@ EXCEPT ![index1] = y, ![index2] = x],
                     !.node = [@ EXCEPT ![y].index = index1, ![x].index = index2]]

\* isla__heap_siftup; pos is the index it returns
RECURSIVE HeapSiftup(_, _)
HeapSiftup(m, index) ==
  IF m.ub THEN m
  ELSE IF index = 0 THEN [m EXCEPT !.pos = 0]
  ELSE LET parent == (index - 1) \div 2
           x == m.h.nodes[index]
           y == m.h.nodes[parent]
       IN  IF ~IsNode(x) \/ ~IsNode(y) THEN [m EXCEPT !.ub = TRUE]
           ELSE IF m.node[x].f < m.node[y].f
                THEN HeapSiftup(HeapSwap(m, index, parent), parent)
                ELSE [m EXCEPT !.pos = index]

\* the child that both sift-downs move to: the right one only when its f is
\* strictly smaller
Higher(m, left) ==
  IF left + 1 < m.h.length
     /\ m.node[m.h.nodes[left + 1]].f < m.node[m.h.nodes[left]].f
  THEN left + 1 ELSE left

\* a sift-down to a leaf that does not sift up from there
RECURSIVE HeapSiftdownToLeaf(_, _)
HeapSiftdownToLeaf(m, index) ==
  LET left == 2 * index + 1
  IN  IF m.ub THEN m
      ELSE IF left < m.h.length
           THEN HeapSiftdownToLeaf(HeapSwap(m, index, Higher(m, left)), Higher(m, left))
           ELSE m

\* isla__heap_siftdown_floyd
RECURSIVE HeapSiftdownFloyd(_, _)
HeapSiftdownFloyd(m, index) ==
  LET left == 2 * index + 1
  IN  IF m.ub THEN m
      ELSE IF left < m.h.length
           THEN HeapSiftdownFloyd(HeapSwap(m, index, Higher(m, left)), Higher(m, left))
           ELSE HeapSiftup(m, index)

\* isla__heap_siftdown
RECURSIVE HeapSiftdown(_, _)
HeapSiftdown(m, index) ==
  LET left == 2 * index + 1
  IN  IF m.ub \/ ~(left < m.h.length) THEN m
      ELSE IF ~IsNode(m.h.nodes[index]) THEN [m EXCEPT !.ub = TRUE]
           ELSE IF m.node[m.h.nodes[index]].f < m.node[m.h.nodes[Higher(m, left)]].f
                THEN m
                ELSE HeapSiftdown(HeapSwap(m, index, Higher(m, left)), Higher(m, left))

\* isla__heap_dequeue: pos is unused, the node it returns is Dequeued(h)
Dequeued(h) == IF h.length = 0 THEN NULL ELSE h.nodes[0]

HeapDequeue(m) ==
  IF m.h.length = 0 THEN m
  ELSE IF m.h.length = 1 THEN [m EXCEPT !.h.length = 0]
  ELSE LET shrunk == [m EXCEPT !.h.length = m.h.length - 1]
       IN  HeapSiftdownFloyd(HeapSwap(shrunk, 0, shrunk.h.length), 0)

\* isla__heap_update
HeapUpdate(m, n) ==
  LET up == HeapSiftup(m, m.node[n].index)
  IN  HeapSiftdown(up, up.pos)

\* the slots that isla__heap_siftup reads from index on: index, its parent,
\* and so on up to the root
RECURSIVE Climb(_)
Climb(index) == IF index = 0 THEN {0} ELSE {index} \cup Climb((index - 1) \div 2)

\* the indeterminate slots that a sift-up from index reads, read as junk
Resolve(h, index, junk) ==
  [h EXCEPT !.nodes = [s \in Slots |-> IF s \in Climb(index) /\ h.nodes[s] = Uninit
                                        THEN junk ELSE h.nodes[s]]]

\* ---------------------------------------------------------- allocator
\* count: the requests (malloc, realloc) of the running call so far;
\* failAt: the request that returns NULL (0: none); brk: the last storage
\* identity handed out
Granted(a) == a.count + 1 # a.failAt

Request(a) == [a EXCEPT !.count = a.count + 1]

Fresh(a) == [a EXCEPT !.count = a.count + 1, !.brk = a.brk + 1]

\* isla__path_create with its two malloc calls
TryCreate(n, who, a) ==
  IF ~Granted(a) THEN [ok |-> FALSE, list |-> NoList, a |-> Request(a)]
  ELSE IF ~Granted(Request(a))
       THEN [ok |-> FALSE, list |-> NoList, a |-> Request(Request(a))]
       ELSE [ok |-> TRUE, list |-> PathCreate(n, who, a.brk + 1),
             a |-> Fresh(Request(a))]

\* isla__path_push with the realloc of isla__path_grow
TryPush(l, n, a) ==
  IF ~NeedsGrow(l) THEN [ok |-> TRUE, list |-> PathPush(l, n, l.buf), a |-> a]
  ELSE IF Granted(a)
       THEN [ok |-> TRUE, list |-> PathPush(l, n, a.brk + 1), a |-> Fresh(a)]
       ELSE [ok |-> FALSE, list |-> l, a |-> Request(a)]

\* isla__heap_enqueue of n on the list h, with the node fields nd
HeapEnqueue(h, nd, n, a) ==
  LET push == TryPush(h, n, a)
  IN  [ok |-> push.ok, a |-> push.a,
       m |-> IF push.ok THEN HeapSiftup(Mem(push.list, nd), push.list.length - 1)
             ELSE Mem(h, nd)]

\* ----------------------------------------------------------- callbacks
\* next_neighbor(n, prev): the neighbors of n in increasing order
NextNeighbor(n, prev) ==
  LET later == {m \in Nodes : m > prev /\ cost[n][m] # NoEdge}
  IN  IF later = {} THEN NULL ELSE CHOOSE m \in later : \A k \in later : m <= k

\* properties: null (the bundle itself is NULL), hasPred and pred
\* (is_finish_node and the nodes it accepts), cache_open and cache_used
\* (whether the caller's lists are passed)
NoPred == [null |-> FALSE, hasPred |-> FALSE, pred |-> {},
           cache_open |-> FALSE, cache_used |-> FALSE]

\* ------------------------------------------------------ isla__cleanup
\* isla__cleanup that destroys the lists whoever owns them
CleanupDestroys(M, cached) ==
  [M EXCEPT
     !.node = [n \in Nodes |-> IF \E i \in 0..(M.used.length - 1) : M.used.nodes[i] = n
                               THEN DefaultNode ELSE M.node[n]],
     !.used = DestroyPath(M.used),
     !.open = DestroyPath(M.open)]

InList(l, n) == \E i \in 0..(l.length - 1) : l.nodes[i] = n

Cleanup(M, cached) ==
  [M EXCEPT
     !.node = [n \in Nodes |-> IF InList(M.used, n) THEN DefaultNode ELSE M.node[n]],
     !.used = IF cached THEN [M.used EXCEPT !.length = 0] ELSE DestroyPath(M.used),
     !.open = IF cached THEN [M.open EXCEPT !.length = 0] ELSE DestroyPath(M.open)]

\* --------------------------------------------------- isla__build_path
NoPath == NoList

RECURSIVE BuildWalk(_, _, _, _, _)
BuildWalk(nd, n, p, a, fuel) ==
  LET push == TryPush(p, n, a)
  IN  IF ~push.ok
      THEN [status |-> ISLA_ERROR_BAD_REALLOC, path |-> DestroyPath(p), a |-> push.a,
            hung |-> FALSE]
      ELSE IF nd[n].parent = NULL
           THEN [status |-> ISLA_OK, path |-> push.list, a |-> push.a, hung |-> FALSE]
           ELSE IF fuel = 0
                THEN [status |-> ISLA_OK, path |-> NoPath, a |-> push.a, hung |-> TRUE]
                ELSE BuildWalk(nd, nd[n].parent, push.list, push.a, fuel - 1)

BuildPath(nd, n, a) ==
  LET made == TryCreate(PathInitial, "caller", a)
  IN  IF ~made.ok
      THEN [status |-> ISLA_ERROR_BAD_ALLOC, path |-> NoPath, a |-> made.a, hung |-> FALSE]
      ELSE BuildWalk(nd, n, made.list, made.a, NumNodes)

\* ------------------------------------------------------ isla_find_path
\* The machine M = [node, open, used, cache, call, alloc, result, pc] is
\* what one call reads and writes; each step below is a function of it.
\* call: the arguments and the locals node (cur) and neighbor (prev) of the
\* running call; ub records that the call dereferenced an indeterminate slot
\* pushes[n]: how many times the running call put n on the open list
NoPushes == [n \in Nodes |-> 0]

NoCall == [start |-> NULL, finish |-> NULL, props |-> NoPred, cached |-> FALSE,
           cur |-> NULL, prev |-> NULL, ub |-> FALSE, pushes |-> NoPushes]

Result(st, p) == [status |-> st, path |-> p]

\* the lists of a cached call are the caller's lists
Alias(M) ==
  IF M.call.cached THEN [M EXCEPT !.cache = [open |-> M.open, used |-> M.used]]
  ELSE M

\* a return of isla_find_path
Return(M, st, p) ==
  Alias([M EXCEPT !.result = Result(st, p), !.pc = "done", !.call.pushes = NoPushes])

\* the test of the arguments at the entry, without the test of properties
BadArgumentsNoProps(start, finish, props) ==
  start = NULL \/ finish = NULL

\* the test of the arguments at the entry
BadArguments(start, finish, props) ==
  start = NULL \/ finish = NULL \/ props.null

\* cached = properties->cache_open != NULL && properties->cache_used != NULL
Cached(props) == props.cache_open /\ props.cache_used

\* from the entry of isla_find_path to the main loop
FindPathStep(M, start, finish, props, failAt) ==
  IF BadArguments(start, finish, props)
  THEN [M EXCEPT !.result = Result(ISLA_ERROR_BAD_ARGUMENTS, NoPath), !.pc = "done"]
  ELSE
    LET cached == Cached(props)
        a0 == [count |-> 0, failAt |-> failAt, brk |-> M.alloc.brk]
        co == IF cached THEN [ok |-> TRUE, list |-> M.cache.open, a |-> a0]
              ELSE TryCreate(ISLA_MAX_NEIGHBORS, "engine", a0)
        cu == IF cached THEN [ok |-> TRUE, list |-> M.cache.used, a |-> co.a]
              ELSE TryCreate(UsedInitial, "engine", co.a)
        frame == [start |-> start, finish |-> finish, props |-> props,
                  cached |-> cached, cur |-> NULL, prev |-> NULL, ub |-> FALSE,
                  pushes |-> NoPushes]
        M1 == [M EXCEPT !.call = frame, !.alloc = cu.a,
                        !.open = co.list, !.used = cu.list]
    IN  IF ~co.ok \/ ~cu.ok
        THEN Return([M1 EXCEPT !.open = DestroyPath(co.list),
                               !.used = DestroyPath(cu.list)],
                    ISLA_ERROR_BAD_ALLOC, NoPath)
        ELSE
          LET enq == HeapEnqueue(co.list, M.node, start, cu.a)
          IN  IF ~enq.ok
              THEN Return(Cleanup([M1 EXCEPT !.alloc = enq.a], cached),
                          ISLA_ERROR_BAD_REALLOC, NoPath)
              ELSE IF enq.m.ub THEN [M1 EXCEPT !.pc = "crashed"]
              ELSE Alias([M1 EXCEPT
                     !.alloc = enq.a,
                     !.open = enq.m.h,
                     !.call.pushes[start] = 1,
                     !.node = [enq.m.node EXCEPT ![start].g = 0,
                                               ![start].f = est[start][finish]],
                     !.pc = "loop"])

\* the goal test of the main loop without the comparison with finish
IsGoalByPredicate(c, n) == c.props.hasPred /\ n \in c.props.pred

\* the goal test of the main loop
IsGoal(c, n) == n = c.finish \/ (c.props.hasPred /\ n \in c.props.pred)

\* the node the path is built from when the goal test accepts n
PathFrom(c, n) == c.finish

\* one turn of the main loop up to the neighbor loop, or the return
IterateStep(M) ==
  IF M.open.length = 0
  THEN Return(Cleanup(M, M.call.cached), ISLA_BLOCKED, NoPath)
  ELSE
    LET n == Dequeued(M.open)
        deq == HeapDequeue(Mem(M.open, M.node))
        closed == [deq.node EXCEPT ![n].status = ISLA_NODE_CLOSED]
        M1 == [M EXCEPT !.open = deq.h, !.node = closed,
                        !.call.cur = n, !.call.prev = NULL]
    IN  IF deq.ub THEN [M EXCEPT !.pc = "crashed"]
        ELSE IF IsGoal(M.call, n)
        THEN LET b == BuildPath(closed, PathFrom(M.call, n), M.alloc)
             IN  IF b.hung THEN [M1 EXCEPT !.pc = "hung"]
                 ELSE Return(Cleanup([M1 EXCEPT !.alloc = b.a], M.call.cached),
                             b.status, b.path)
        ELSE Alias([M1 EXCEPT !.pc = "expand"])

\* the values a discovered or relaxed neighbor gets from the node expanded
Relaxed(nd, c, nb) ==
  LET g == nd[c.cur].g + cost[c.cur][nb]
  IN  [nd EXCEPT ![nb].g = g,
                 ![nb].f = g + est[c.cur][c.finish],
                 ![nb].parent = c.cur]

\* whether the neighbor is discovered or relaxed
Improves(nd, c, nb) ==
  nd[nb].status = ISLA_NODE_DEFAULT \/ nd[c.cur].g + cost[c.cur][nb] < nd[nb].g

\* the first time a neighbor is seen: onto the ledger, onto the open list
Discover(M, nd, nb) ==
  LET opened == [nd EXCEPT ![nb].status = ISLA_NODE_OPENED]
      eu == HeapEnqueue(M.used, opened, nb, M.alloc)
      po == TryPush(M.open, nb, eu.a)
      M1 == [M EXCEPT !.node = opened, !.alloc = eu.a]
      M2 == [M EXCEPT !.node = eu.m.node, !.used = eu.m.h, !.alloc = po.a]
  IN  IF ~eu.ok THEN Return(Cleanup(M1, M.call.cached), ISLA_ERROR_BAD_REALLOC, NoPath)
      ELSE IF ~po.ok THEN Return(Cleanup(M2, M.call.cached), ISLA_ERROR_BAD_REALLOC, NoPath)
      ELSE Alias([M2 EXCEPT !.open = po.list, !.call.prev = nb,
                            !.call.pushes[nb] = @ + 1])

\* a neighbor already on the open list got cheaper; junk is what the
\* indeterminate slots turn out to hold if the update dereferences one
Relax(M, nd, nb, junk) ==
  LET first == HeapUpdate(Mem(M.open, nd), nb)
      upd == IF first.ub THEN HeapUpdate(Mem(Resolve(M.open, nd[nb].index, junk), nd), nb) ELSE first
  IN  IF upd.ub THEN [M EXCEPT !.pc = "crashed", !.call.ub = TRUE]
      ELSE Alias([M EXCEPT !.node = upd.node, !.open = upd.h, !.call.prev = nb,
                           !.call.ub = (M.call.ub \/ first.ub)])

\* whether this turn of the neighbor loop dereferences an indeterminate slot
ReadsIndeterminate(M) ==
  LET nb == NextNeighbor(M.call.cur, M.call.prev)
  IN  /\ nb # NULL
      /\ M.node[nb].status = ISLA_NODE_OPENED
      /\ Improves(M.node, M.call, nb)
      /\ HeapUpdate(Mem(M.open, Relaxed(M.node, M.call, nb)), nb).ub

\* one turn of the neighbor loop
NeighborStep(M, junk) ==
  LET c == M.call
      nb == NextNeighbor(c.cur, c.prev)
  IN  IF nb = NULL THEN [M EXCEPT !.pc = "loop"]
      ELSE IF M.node[nb].status = ISLA_NODE_CLOSED \/ ~Improves(M.node, c, nb)
      THEN [M EXCEPT !.call.prev = nb]
      ELSE IF M.node[nb].status = ISLA_NODE_OPENED
           THEN Relax(M, Relaxed(M.node, c, nb), nb, junk)
           ELSE Discover(M, Relaxed(M.node, c, nb), nb)

\* ------------------------------------------------------------ actions
Cur == [node |-> node, open |-> open, used |-> used, cache |-> cache,
        call |-> call, alloc |-> alloc, result |-> result, pc |-> pc]

Becomes(M) ==
  /\ node' = M.node
  /\ open' = M.open
  /\ used' = M.used
  /\ cache' = M.cache
  /\ call' = M.call
  /\ alloc' = M.alloc
  /\ result' = M.result
  /\ pc' = M.pc

\* the nodes of a path, first to last
PathSeq(p) == [i \in 1..p.length |-> p.nodes[i - 1]]

\* the caller's record of a call: its arguments, the node fields at its
\* entry and, once it returned, its result
Entry(start, finish, props, failAt) ==
  [start |-> start, finish |-> finish, props |-> props, failAt |-> failAt,
   entry |-> node, returned |-> FALSE, status |-> ISLA_OK, null |-> TRUE,
   path |-> <<>>, ub |-> FALSE]

Log(h, M) ==
  IF M.pc = "done"
  THEN [h EXCEPT ![Len(h)].returned = TRUE,
                 ![Len(h)].status = M.result.status,
                 ![Len(h)].null = (M.result.path.buf = 0),
                 ![Len(h)].path = PathSeq(M.result.path),
                 ![Len(h)].ub = M.call.ub]
  ELSE h

\* the caller calls isla_find_path
FindPath(start, finish, props, failAt) ==
  /\ pc = "idle"
  /\ LET M == FindPathStep(Cur, start, finish, props, failAt)
     IN  /\ Becomes(M)
         /\ hist' = Log(Append(hist, Entry(start, finish, props, failAt)), M)
  /\ UNCHANGED <<cost, est>>

\* while ( openlist->length > 0 ) ...
Iterate ==
  /\ pc = "loop"
  /\ LET M == IterateStep(Cur)
     IN  Becomes(M) /\ hist' = Log(hist, M)
  /\ UNCHANGED <<cost, est>>

\* what an indeterminate slot may hold: a node address or no valid address
Junk == Nodes \cup {Wild}

\* while ( (neighbor = properties->next_neighbor( node, neighbor, userdata )) ) ...
Neighbor ==
  /\ pc = "expand"
  /\ \E junk \in (IF ReadsIndeterminate(Cur) THEN Junk ELSE {Wild}) :
       LET M == NeighborStep(Cur, junk)
       IN  Becomes(M) /\ hist' = Log(hist, M)
  /\ UNCHANGED <<cost, est>>

\* the caller is done with the result: isla_destroy_path( result.path )
Release ==
  /\ pc = "done"
  /\ pc' = "idle"
  /\ result' = [result EXCEPT !.path = IF @.buf = 0 THEN @ ELSE DestroyPath(@)]
  /\ UNCHANGED <<cost, est, node, open, used, cache, call, alloc, hist>>

\* the caller reverses the path it holds; pc tells whether the path is in
\* the order in which the caller got it ("done") or not ("reversed")
Reverse ==
  /\ pc \in {"done", "reversed"}
  /\ pc' = IF pc = "done" THEN "reversed" ELSE "done"
  /\ result' = [result EXCEPT !.path = ReversePath(@)]
  /\ UNCHANGED <<cost, est, node, open, used, cache, call, alloc, hist>>

\* isla__heap_dequeue called on the open list by itself; the node it
\* returns is kept in call.cur
Dequeue ==
  /\ pc \in {"heap", "dequeued"}
  /\ pc' = "dequeued"
  /\ LET deq == HeapDequeue(Mem(open, node))
     IN  /\ ~deq.ub
         /\ open' = deq.h
         /\ node' = deq.node
         /\ call' = [call EXCEPT !.cur = Dequeued(open)]
  /\ UNCHANGED <<cost, est, used, cache, alloc, result, hist>>

\* ------------------------------------------------------ the inputs
Costs == 0..MaxCost

\* the graphs whose edges all are among links, with costs among costs
GraphsOver(links, costs) ==
  {[a \in Nodes |-> [b \in Nodes |-> IF <<a, b>> \in links THEN w[<<a, b>>] ELSE NoEdge]] :
     w \in [links -> costs \cup {NoEdge}]}

\* estimate_cost(a, b) = hv[a], and 0 at the goal itself
Estimates(ns) ==
  {[a \in Nodes |-> [b \in Nodes |-> IF a = b \/ a \notin ns THEN 0 ELSE hv[a]]] :
     hv \in [ns -> 0..MaxEst]}

NoEstimate == [a \in Nodes |-> [b \in Nodes |-> 0]]

\* the caller has no scratch lists
NoCache == [open |-> NoList, used |-> NoList]

NoCacheInit ==
  /\ cache = NoCache
  /\ alloc = [count |-> 0, failAt |-> 0, brk |-> 0]

\* the caller made two empty scratch lists of the given capacities
CallerCache(capOpen, capUsed) ==
  [open |-> PathCreate(capOpen, "caller", 1), used |-> PathCreate(capUsed, "caller", 2)]

CacheInit(capOpen, capUsed) ==
  /\ cache = CallerCache(capOpen, capUsed)
  /\ alloc = [count |-> 0, failAt |-> 0, brk |-> 2]

CacheProps == [NoPred EXCEPT !.cache_open = TRUE, !.cache_used = TRUE]

InitProgram ==
  /\ node = AllDefault
  /\ open = NoList
  /\ used = NoList
  /\ call = NoCall
  /\ result = Result(ISLA_OK, NoPath)
  /\ pc = "idle"
  /\ hist = <<>>

\* every graph on the first three nodes, every estimate on them
DenseNodes == 1..3

DenseLinks == {l \in DenseNodes \X DenseNodes : l[1] # l[2] /\ l[2] # 1}

Init ==
  /\ InitProgram
  /\ NoCacheInit
  /\ cost \in GraphsOver(DenseLinks, Costs)
  /\ est \in Estimates(DenseNodes)

\* one search from node 1
Next ==
  \/ \E finish \in DenseNodes : Len(hist) < 1 /\ FindPath(1, finish, NoPred, 0)
  \/ Iterate
  \/ Neighbor
  \/ Release

Spec == Init /\ [][Next]_vars

\* every graph whose edges leave node 1 or node 2 towards a higher node among
\* the first HubNodes nodes, with the estimate 0; the nodes beyond HubNodes
\* have no edge at all
HubNodes == 5

HubLinks == {l \in (1..2) \X (2..HubNodes) : l[1] < l[2]}

InitHub ==
  /\ InitProgram
  /\ NoCacheInit
  /\ cost \in GraphsOver(HubLinks, Costs)
  /\ est = NoEstimate

NextHub ==
  \/ \E finish \in Nodes \ {1} : Len(hist) < 1 /\ FindPath(1, finish, NoPred, 0)
  \/ Iterate
  \/ Neighbor
  \/ Release

SpecHub == InitHub /\ [][NextHub]_vars

\* every graph on the first three nodes with unit costs and the estimate 0,
\* scratch lists of the caller, and up to MaxCalls calls whose arguments may
\* be NULL
InitArgs ==
  /\ InitProgram
  /\ CacheInit(1, 1)
  /\ cost \in GraphsOver(DenseLinks, {1})
  /\ est = NoEstimate

NullProps == [CacheProps EXCEPT !.null = TRUE]

NextArgs ==
  \/ \E start \in {NULL, 1}, finish \in {NULL} \cup DenseNodes, props \in {CacheProps, NullProps} :
       Len(hist) < MaxCalls /\ FindPath(start, finish, props, 0)
  \/ Iterate
  \/ Neighbor
  \/ Release

SpecArgs == InitArgs /\ [][NextArgs]_vars

\* every graph on the first three nodes with unit costs and the estimate 0,
\* and up to MaxCalls searches between any two of them on the same nodes
LoopLinks == {l \in DenseNodes \X DenseNodes : l[1] # l[2]}

InitReuse ==
  /\ InitProgram
  /\ NoCacheInit
  /\ cost \in GraphsOver(LoopLinks, {1})
  /\ est = NoEstimate

NextReuse ==
  \/ \E start \in DenseNodes, finish \in DenseNodes :
       Len(hist) < MaxCalls /\ FindPath(start, finish, NoPred, 0)
  \/ Iterate
  \/ Neighbor
  \/ Release

SpecReuse == InitReuse /\ [][NextReuse]_vars

\* every graph on the first three nodes with the estimate 0, and one search
\* from node 1 with a goal predicate that accepts one node
PredProps(n) == [NoPred EXCEPT !.hasPred = TRUE, !.pred = {n}]

InitPred ==
  /\ InitProgram
  /\ NoCacheInit
  /\ cost \in GraphsOver(DenseLinks, Costs)
  /\ est = NoEstimate

NextPred ==
  \/ \E finish \in DenseNodes, n \in DenseNodes :
       Len(hist) < 1 /\ FindPath(1, finish, PredProps(n), 0)
  \/ Iterate
  \/ Neighbor
  \/ Release

SpecPred == InitPred /\ [][NextPred]_vars

\* every graph on the first three nodes with the estimate 0, and one search
\* from node 1, with the engine's lists or with the caller's lists of
\* capacity 1, in which the allocator refuses one request or none
MaxFail == 8

InitFail ==
  /\ InitProgram
  /\ CacheInit(1, 1)
  /\ cost \in GraphsOver(DenseLinks, Costs)
  /\ est = NoEstimate

NextFail ==
  \/ \E finish \in DenseNodes, props \in {NoPred, CacheProps}, failAt \in 0..MaxFail :
       Len(hist) < 1 /\ FindPath(1, finish, props, failAt)
  \/ Iterate
  \/ Neighbor
  \/ Release

SpecFail == InitFail /\ [][NextFail]_vars

\* every graph whose edges go from node 1 to node 2 or to the last node but
\* one, or from node 2 to a higher node but the last, with costs 0 and 1,
\* together with edges of cost 0 from the last node to the nodes between;
\* the estimate 0; up to MaxCalls searches from node 1 or from the last node
\* to one of the last two nodes, with the caller's lists of capacity 1
CacheLinks == {<<1, 2>>, <<1, NumNodes - 1>>} \cup ({2} \X (3..(NumNodes - 1)))

WarmLinks == {NumNodes} \X (2..(NumNodes - 1))

\* the edges of a and, where a has none, the edges of b
Join(a, b) ==
  [x \in Nodes |-> [y \in Nodes |-> IF a[x][y] # NoEdge THEN a[x][y] ELSE b[x][y]]]

InitCache ==
  /\ InitProgram
  /\ CacheInit(1, 1)
  /\ cost \in {Join(a, b) : a \in GraphsOver(CacheLinks, 0..1),
                            b \in GraphsOver(WarmLinks, {0})}
  /\ est = NoEstimate

NextCache ==
  \/ \E start \in {1, NumNodes}, finish \in (NumNodes - 1)..NumNodes :
       Len(hist) < MaxCalls /\ FindPath(start, finish, CacheProps, 0)
  \/ Iterate
  \/ Neighbor
  \/ Release

SpecCache == InitCache /\ [][NextCache]_vars

\* every graph of unit costs on the line 1 -> 2 -> ... -> NumNodes with the
\* shortcut 1 -> 3, the estimate 0, and one search from node 1 with the
\* engine's lists, with the caller's lists of capacity 1, or with only
\* cache_open supplied, in which the allocator refuses one request or none
LineLinks == {l \in Nodes \X Nodes : l[2] = l[1] + 1} \cup {<<1, 3>>}

HalfCacheProps == [NoPred EXCEPT !.cache_open = TRUE]

InitOwn ==
  /\ InitProgram
  /\ CacheInit(1, 1)
  /\ cost \in GraphsOver(LineLinks, {1})
  /\ est = NoEstimate

NextOwn ==
  \/ \E finish \in Nodes, props \in {NoPred, CacheProps, HalfCacheProps},
        failAt \in 0..MaxFail :
       Len(hist) < 1 /\ FindPath(1, finish, props, failAt)
  \/ Iterate
  \/ Neighbor
  \/ Release

SpecOwn == InitOwn /\ [][NextOwn]_vars

\* every graph on the first two nodes, self-loops included, with costs 0 and
\* 1, every estimate on them (the estimate of a node to itself included),
\* and up to MaxCalls searches between any two of them on the same nodes
PairNodes == 1..2

PairEstimates ==
  {[a \in Nodes |-> [b \in Nodes |->
      IF a \in PairNodes /\ b \in PairNodes THEN hv[<<a, b>>] ELSE 0]] :
     hv \in [PairNodes \X PairNodes -> 0..MaxEst]}

InitSame ==
  /\ InitProgram
  /\ NoCacheInit
  /\ cost \in GraphsOver(PairNodes \X PairNodes, 0..1)
  /\ est \in PairEstimates

NextSame ==
  \/ \E start \in PairNodes, finish \in PairNodes :
       Len(hist) < MaxCalls /\ FindPath(start, finish, NoPred, 0)
  \/ Iterate
  \/ Neighbor
  \/ Release

SpecSame == InitSame /\ [][NextSame]_vars

\* the caller holds no path or a path of up to MaxLen nodes among the first
\* three, built as isla__build_path builds one, and reverses it
MaxLen == 5

RECURSIVE PushAll(_, _)
PushAll(l, s) ==
  IF s = <<>> THEN l ELSE PushAll(PathPush(l, Head(s), l.buf + 1), Tail(s))

PathOf(s) == PushAll(PathCreate(PathInitial, "caller", 1), s)

PathsHeld ==
  {NoPath} \cup {PathOf(s) : s \in UNION {[1..n -> DenseNodes] : n \in 0..MaxLen}}

InitRev ==
  /\ node = AllDefault
  /\ open = NoList
  /\ used = NoList
  /\ call = NoCall
  /\ hist = <<>>
  /\ NoCacheInit
  /\ cost \in GraphsOver({}, {})
  /\ est = NoEstimate
  /\ pc = "done"
  /\ result \in {Result(ISLA_OK, p) : p \in PathsHeld}

NextRev == Reverse

SpecRev == InitRev /\ [][NextRev]_vars

\* min-heap order on f of the live slots of h
IsHeap(h, nd) ==
  \A i \in 1..(h.length - 1) : nd[h.nodes[(i - 1) \div 2]].f <= nd[h.nodes[i]].f

\* a list that holds the nodes 1..len in this order, each with its index
\* and with the key f given by keys
HeapList(len) == PushAll(PathCreate(ISLA_MAX_NEIGHBORS, "engine", 1), [i \in 1..len |-> i])

HeapNodes(len, keys) ==
  [n \in Nodes |-> IF n <= len
                   THEN [DefaultNode EXCEPT !.f = keys[n], !.index = n - 1,
                                            !.status = ISLA_NODE_OPENED]
                   ELSE DefaultNode]

\* every min-heap of up to NumNodes nodes with keys up to MaxKey, equal keys
\* included, and isla__heap_dequeue applied to it until it is empty and
\* once more
MaxKey == 2

InitHeap ==
  /\ used = NoList
  /\ call = NoCall
  /\ hist = <<>>
  /\ result = Result(ISLA_OK, NoPath)
  /\ NoCacheInit
  /\ cost \in GraphsOver({}, {})
  /\ est = NoEstimate
  /\ pc = "heap"
  /\ \E len \in 0..NumNodes, keys \in [Nodes -> 0..MaxKey] :
       /\ \A n \in Nodes : n > len => keys[n] = 0
       /\ open = HeapList(len)
       /\ node = HeapNodes(len, keys)
       /\ IsHeap(open, node)

NextHeap == Dequeue

SpecHeap == InitHeap /\ [][NextHeap]_vars

\* every graph whose edges go from node 1 to node 2 or 5, or from node 2 to
\* node 3, 4 or 5, with the estimate 0, and one search from node 1
LiveLinks == {<<1, 2>>, <<1, 5>>} \cup ({2} \X (3..5))

InitLive ==
  /\ InitProgram
  /\ NoCacheInit
  /\ cost \in GraphsOver(LiveLinks, Costs)
  /\ est = NoEstimate

NextLive ==
  \/ \E finish \in Nodes : Len(hist) < 1 /\ FindPath(1, finish, NoPred, 0)
  \/ Iterate
  \/ Neighbor
  \/ Release

\* a search is running
Searching(p) == p \in {"loop", "expand"}

\* the values of pc and of the frame of a call
Pcs == {"idle", "loop", "expand", "done", "reversed", "heap", "dequeued", "crashed", "hung"}

Frames ==
  [start : Nodes \cup {NULL}, finish : Nodes \cup {NULL},
   props : [null : BOOLEAN, hasPred : BOOLEAN, pred : SUBSET Nodes,
            cache_open : BOOLEAN, cache_used : BOOLEAN],
   cached : BOOLEAN, cur : Nodes \cup {NULL}, prev : Nodes \cup {NULL},
   ub : BOOLEAN, pushes : [Nodes -> 0..NumNodes]]

\* a step of a running call: isla_find_path is synchronous, so a call that
\* was entered takes the next turn of its main loop or of its neighbor loop.
\* Turn is enabled exactly when Iterate or Neighbor is, and each of their
\* steps changes pc or the frame, so weak fairness of Turn is weak fairness
\* of the two loops.
Turn == Searching(pc) /\ pc' \in Pcs /\ call' \in Frames

SpecLive == InitLive /\ [][NextLive]_vars /\ WF_<<pc, call>>(Turn)

\* ------------------------------------------------- a call run to its end
FreshMachine(nd) ==
  [node |-> nd, open |-> NoList, used |-> NoList, cache |-> NoCache,
   call |-> NoCall, alloc |-> [count |-> 0, failAt |-> 0, brk |-> 0],
   result |-> Result(ISLA_OK, NoPath), pc |-> "idle"]

\* no call takes more steps than this
RunFuel == (NumNodes + 2) * (NumNodes + 2)

RECURSIVE Run(_, _, _)
Run(M, junk, fuel) ==
  IF M.pc \notin {"loop", "expand"} \/ fuel = 0 THEN M
  ELSE IF M.pc = "loop" THEN Run(IterateStep(M), junk, fuel - 1)
  ELSE Run(NeighborStep(M, junk), junk, fuel - 1)

\* isla_find_path from its entry to its return (or to where it stops)
FindPathRun(M, start, finish, props, failAt, junk) ==
  Run(FindPathStep(M, start, finish, props, failAt), junk, RunFuel)

\* what the caller sees of a call: whether it returned, and the result
Outcome(M) ==
  [pc |-> M.pc,
   status |-> IF M.pc = "done" THEN M.result.status ELSE ISLA_OK,
   null |-> IF M.pc = "done" THEN M.result.path.buf = 0 ELSE TRUE,
   path |-> IF M.pc = "done" THEN PathSeq(M.result.path) ELSE <<>>]

\* ------------------------------------------------- graphs, for the claims
\* more than the cost of any route without a repeated node
Unreachable == NumNodes * (MaxCost + 1)

MinOf(S) == CHOOSE x \in S : \A y \in S : x <= y

\* one round of relaxing every edge
RelaxAll(d) ==
  [b \in Nodes |->
     MinOf({d[b]} \cup {d[a] + cost[a][b] : a \in {x \in Nodes : cost[x][b] # NoEdge /\ d[x] < Unreachable}})]

RECURSIVE Rounds(_, _)
Rounds(d, k) == IF k = 0 THEN d ELSE Rounds(RelaxAll(d), k - 1)

\* Distances(s)[b]: the least total edge cost of a route from s to b
Distances(s) == Rounds([b \in Nodes |-> IF b = s THEN 0 ELSE Unreachable], NumNodes)

Reachable(s, b) == Distances(s)[b] < Unreachable

\* the estimate never exceeds the least cost to the goal, and obeys the
\* triangle inequality along every edge
\* one round of relaxing every edge towards the goal
RelaxBack(d) ==
  [a \in Nodes |->
     MinOf({d[a]} \cup {cost[a][b] + d[b] : b \in {x \in Nodes : cost[a][x] # NoEdge /\ d[x] < Unreachable}})]

RECURSIVE RoundsBack(_, _)
RoundsBack(d, k) == IF k = 0 THEN d ELSE RoundsBack(RelaxBack(d), k - 1)

\* DistancesTo(t)[a]: the least total edge cost of a route from a to t
DistancesTo(t) == RoundsBack([a \in Nodes |-> IF a = t THEN 0 ELSE Unreachable], NumNodes)

Admissible(goal) ==
  /\ est[goal][goal] = 0
  /\ LET d == DistancesTo(goal)
     IN  \A a \in Nodes : d[a] < Unreachable => est[a][goal] <= d[a]

Consistent(goal) ==
  \A a, b \in Nodes : cost[a][b] # NoEdge => est[a][goal] <= cost[a][b] + est[b][goal]

\* the total edge cost of a path that lists the nodes from goal to start
RECURSIVE PathCost(_)
PathCost(p) ==
  IF Len(p) < 2 THEN 0 ELSE cost[p[2]][p[1]] + PathCost(Tail(p))

\* the graph with the edges <<from, to, cost>> of E
Graph(E) ==
  [a \in Nodes |-> [b \in Nodes |->
     IF \E e \in E : e[1] = a /\ e[2] = b
     THEN (CHOOSE e \in E : e[1] = a /\ e[2] = b)[3] ELSE NoEdge]]

\* ------------------------------------------------------------ claims
LastCall == hist[Len(hist)]

\* a call that returned, made on fresh default nodes, with no goal predicate,
\* engine-allocated lists and no allocation failure
PlainCallDone ==
  /\ pc = "done"
  /\ Len(hist) = 1
  /\ LastCall.start # NULL /\ LastCall.finish # NULL /\ ~LastCall.props.null
  /\ LastCall.entry = AllDefault
  /\ ~LastCall.props.hasPred
  /\ ~Cached(LastCall.props)
  /\ LastCall.failAt = 0

GoodEstimate == Consistent(LastCall.finish) /\ Admissible(LastCall.finish)

\* C1: on fresh default nodes, with an admissible and consistent estimate, no
\* goal predicate and no allocation failure, a call whose finish is reachable
\* from its start returns ISLA_OK with a path (stated for the calls that never
\* dereference an indeterminate slot, where the code's behaviour is defined).
C1_ReachableIsFound ==
  (PlainCallDone /\ ~call.ub)
  => \/ result.status = ISLA_OK /\ ~LastCall.null
     \/ ~Reachable(LastCall.start, LastCall.finish)
     \/ ~GoodEstimate

\* node 3 is reachable from node 1 (directly and through node 2), no
\* indeterminate slot was read, and the call returned ISLA_BLOCKED
C1_BlockedThoughReachable ==
  /\ PlainCallDone /\ ~call.ub
  /\ cost = Graph({<<1, 2, 0>>, <<1, 3, 2>>, <<1, 4, 0>>, <<1, 5, 0>>, <<2, 3, 1>>})
  /\ LastCall.start = 1 /\ LastCall.finish = 3
  /\ result.status = ISLA_BLOCKED /\ LastCall.null

\* C2: under the preconditions of C1, the path returned with ISLA_OK costs
\* the least total edge cost of any route from start to finish.
C2_PathIsOptimal ==
  (PlainCallDone /\ ~call.ub /\ result.status = ISLA_OK /\ GoodEstimate)
  => PathCost(LastCall.path) = Distances(LastCall.start)[LastCall.finish]

\* the route 1 -> 3 -> 2 costs 0, and the call returned the edge 1 -> 2 of
\* cost 1
C2_DearerPath ==
  /\ PlainCallDone /\ ~call.ub
  /\ cost = Graph({<<1, 2, 1>>, <<1, 3, 0>>, <<3, 2, 0>>})
  /\ est = NoEstimate
  /\ LastCall.start = 1 /\ LastCall.finish = 2
  /\ result.status = ISLA_OK /\ LastCall.path = <<2, 1>>

\* C3: on fresh default nodes, with no goal predicate and no allocation
\* failure, a call whose finish is not reachable from its start returns
\* ISLA_BLOCKED with a NULL path.
C3_UnreachableIsBlocked ==
  (PlainCallDone /\ ~Reachable(LastCall.start, LastCall.finish))
  => (result.status = ISLA_BLOCKED /\ LastCall.null)

\* node 6 has no edge at all; the update of node 5 read a slot of the open
\* list that was never written, it held the address of node 6, and the call
\* returned ISLA_OK with the path <<6>>
C3_FoundThoughUnreachable ==
  /\ PlainCallDone /\ call.ub
  /\ cost = Graph({<<1, 2, 0>>, <<1, 5, 2>>, <<2, 3, 1>>, <<2, 4, 1>>, <<2, 5, 1>>})
  /\ LastCall.start = 1 /\ LastCall.finish = 6
  /\ result.status = ISLA_OK /\ LastCall.path = <<6>>

\* C4: when a call on default nodes returns ISLA_OK or ISLA_BLOCKED, every
\* node it modified, the start node included, is in default state again.
C4_NodesResetOnReturn ==
  (PlainCallDone /\ result.status \in {ISLA_OK, ISLA_BLOCKED})
  => node = AllDefault

\* the call returned ISLA_OK and left its start node closed
C4_StartLeftClosed ==
  /\ PlainCallDone
  /\ result.status = ISLA_OK
  /\ LastCall.start # LastCall.finish
  /\ node[LastCall.start].status = ISLA_NODE_CLOSED
  /\ \A n \in Nodes \ {LastCall.start} : node[n] = DefaultNode

\* C8: the path returned with ISLA_OK and no goal predicate lists finish
\* first, start last, and each node is a neighbor of the node after it.
C8_PathIsParentChain ==
  (PlainCallDone /\ result.status = ISLA_OK)
  => /\ ~LastCall.null
     /\ Len(LastCall.path) >= 1
     /\ LastCall.path[1] = LastCall.finish
     /\ LastCall.path[Len(LastCall.path)] = LastCall.start
     /\ \A i \in 1..(Len(LastCall.path) - 1) :
          cost[LastCall.path[i + 1]][LastCall.path[i]] # NoEdge

\* the call returned ISLA_OK with a path that does not end at start
C8_PathWithoutStart ==
  /\ PlainCallDone /\ call.ub
  /\ result.status = ISLA_OK
  /\ LastCall.path # <<>>
  /\ LastCall.path[Len(LastCall.path)] # LastCall.start

\* a call is made with a NULL start, a NULL finish or a NULL properties bundle
NullArgumentCall ==
  /\ pc = "idle"
  /\ Len(hist') = Len(hist) + 1
  /\ \/ hist'[Len(hist')].start = NULL
     \/ hist'[Len(hist')].finish = NULL
     \/ hist'[Len(hist')].props.null

\* C7: a call with a NULL start, finish or properties bundle returns
\* ISLA_ERROR_BAD_ARGUMENTS with a NULL path at once, requests no allocation
\* and changes no node, no list and no cache buffer of the caller.
C7_NullArgumentsRejected ==
  [][NullArgumentCall =>
       /\ pc' = "done"
       /\ result' = Result(ISLA_ERROR_BAD_ARGUMENTS, NoPath)
       /\ hist'[Len(hist')].null
       /\ alloc' = alloc
       /\ node' = node
       /\ cache' = cache
       /\ open' = open
       /\ used' = used]_vars

\* a second call with a NULL properties bundle returned, on nodes and cache
\* buffers that the first call had used
C7_NullPropsAfterSearch ==
  /\ pc = "done"
  /\ Len(hist) = 2
  /\ hist[1].status = ISLA_OK
  /\ LastCall.props.null /\ LastCall.start # NULL /\ LastCall.finish # NULL
  /\ result.status = ISLA_ERROR_BAD_ARGUMENTS
  /\ node # AllDefault
  /\ cache.open.owner = "caller"
  /\ cache.open.nodes[0] # Uninit

\* C5: after a search that returned ISLA_OK and whose path was released, a
\* second search on the same nodes returns the status and the path that the
\* same search returns on nodes that are all in default state.
C5_NodesReusable ==
  (/\ pc = "done"
   /\ Len(hist) = 2
   /\ hist[1].status = ISLA_OK /\ ~hist[1].null
   /\ ~call.ub)
  => LET fresh == FindPathRun(FreshMachine(AllDefault), LastCall.start,
                              LastCall.finish, LastCall.props, 0, Wild)
     IN  /\ Outcome(fresh).status = result.status
         /\ Outcome(fresh).null = LastCall.null
         /\ Outcome(fresh).path = LastCall.path

\* the only edge is 3 -> 2; the search 2 -> 2 returned ISLA_OK, and then the
\* search 3 -> 2 returned ISLA_BLOCKED on the same nodes
C5_BlockedOnReusedNodes ==
  /\ pc = "done" /\ Len(hist) = 2
  /\ cost = Graph({<<3, 2, 1>>})
  /\ hist[1].start = 2 /\ hist[1].finish = 2 /\ hist[1].status = ISLA_OK
  /\ LastCall.start = 3 /\ LastCall.finish = 2
  /\ result.status = ISLA_BLOCKED
  /\ Outcome(FindPathRun(FreshMachine(AllDefault), 3, 2, NoPred, 0, Wild)).path = <<2, 3>>

\* C9: when the goal predicate accepts the dequeued node n, other than
\* finish, the path returned with ISLA_OK starts at n and ends at start.
C9_PathFromAcceptedNode ==
  (/\ pc = "done"
   /\ result.status = ISLA_OK
   /\ call.props.hasPred
   /\ call.cur \in call.props.pred
   /\ call.cur # call.finish)
  => /\ ~LastCall.null
     /\ Len(LastCall.path) >= 1
     /\ LastCall.path[1] = call.cur
     /\ LastCall.path[Len(LastCall.path)] = call.start

\* the predicate accepted node 2, finish is node 3, and the path is <<3>>
C9_PathFromFinish ==
  /\ pc = "done" /\ result.status = ISLA_OK
  /\ cost = Graph({<<1, 2, 1>>})
  /\ call.start = 1 /\ call.finish = 3 /\ call.props.pred = {2} /\ call.cur = 2
  /\ LastCall.path = <<3>>

\* the allocator refused a request of the call that returned
RequestRefused ==
  /\ pc = "done"
  /\ Len(hist) = 1
  /\ alloc.failAt # 0
  /\ alloc.count >= alloc.failAt

\* C6: when an allocation or a growth fails during a search, the call
\* returns ISLA_ERROR_BAD_ALLOC or ISLA_ERROR_BAD_REALLOC with a NULL path
\* and leaves every node in default state.
C6_FailureLeavesNoTrace ==
  RequestRefused
  => /\ result.status \in {ISLA_ERROR_BAD_ALLOC, ISLA_ERROR_BAD_REALLOC}
     /\ LastCall.null
     /\ node = AllDefault

\* with the caller's lists of capacity 1 the growth of the ledger was
\* refused when node 3 was discovered: node 3 is left opened, node 1 closed
C6_NeighborLeftOpened ==
  /\ RequestRefused
  /\ Cached(LastCall.props) /\ alloc.failAt = 1
  /\ result.status = ISLA_ERROR_BAD_REALLOC /\ LastCall.null
  /\ node[3].status = ISLA_NODE_OPENED /\ node[3].parent = 1
  /\ node[1].status = ISLA_NODE_CLOSED

\* the second of two searches with the caller's lists returned, and neither
\* search read a slot of indeterminate value
SecondCachedDone ==
  /\ pc = "done"
  /\ Len(hist) = 2
  /\ Cached(hist[1].props) /\ Cached(hist[2].props)
  /\ ~hist[1].ub /\ ~hist[2].ub

\* C10: the second of two searches with the caller's lists returns the
\* status and the path that the same search returns with lists of the
\* engine, whatever the engine's fresh storage holds, and the storage of a
\* caller's list is replaced only by a growth.
C10_CachedAsFresh ==
  SecondCachedDone
  => /\ \A junk \in Nodes :
          LET fresh == FindPathRun(FreshMachine(LastCall.entry), LastCall.start,
                                   LastCall.finish, NoPred, 0, junk)
          IN  fresh.pc = "done"
              => /\ Outcome(fresh).status = result.status
                 /\ Outcome(fresh).null = LastCall.null
                 /\ Outcome(fresh).path = LastCall.path
     /\ cache.open.buf # CallerCache(1, 1).open.buf => cache.open.allocated > 1
     /\ cache.used.buf # CallerCache(1, 1).used.buf => cache.used.allocated > 1

\* after the search 6 -> 5 the search 1 -> 6 with the caller's lists read a
\* slot that the first search had written and returned ISLA_BLOCKED; with
\* lists of the engine it reads an indeterminate slot instead, and returns
\* ISLA_OK when that slot holds the address of node 6
C10_CachedBlockedFreshFound ==
  /\ SecondCachedDone
  /\ cost = Graph({<<1, 2, 0>>, <<1, 5, 1>>, <<2, 3, 1>>, <<2, 4, 0>>, <<2, 5, 0>>,
                   <<6, 2, 0>>, <<6, 3, 0>>, <<6, 4, 0>>, <<6, 5, 0>>})
  /\ hist[1].start = 6 /\ hist[1].finish = 5 /\ hist[1].status = ISLA_OK
  /\ LastCall.start = 1 /\ LastCall.finish = 6
  /\ result.status = ISLA_BLOCKED
  /\ Outcome(FindPathRun(FreshMachine(LastCall.entry), 1, 6, NoPred, 0, 6)).status = ISLA_OK

\* a list that is not live: never allocated, or freed once
Gone(l) ==
  /\ l.buf = 0
  /\ \/ l.owner = "none" /\ l.frees = 0
     \/ l.owner = "freed" /\ l.frees = 1

\* a list of the caller that nobody freed
Kept(l) == l.owner = "caller" /\ l.frees = 0 /\ l.buf # 0

\* C11: on every return past the argument test, the caller's lists of a
\* cached call are not freed and have length 0; otherwise the caller's
\* lists are untouched and every list the engine allocated is freed exactly
\* once; a path is left to the caller only with ISLA_OK.
C11_ScratchOwnership ==
  (pc = "done" /\ Len(hist) = 1)
  => /\ Kept(cache.open) /\ Kept(cache.used)
     /\ IF Cached(LastCall.props)
        THEN cache.open.length = 0 /\ cache.used.length = 0
        ELSE Gone(open) /\ Gone(used) /\ cache = CallerCache(1, 1)
     /\ IF result.status = ISLA_OK THEN Kept(result.path) ELSE Gone(result.path)

\* the growth of the path was refused: the path built so far, the open list
\* and the ledger of the engine were all freed
C11_PathGrowthRefused ==
  /\ pc = "done" /\ Len(hist) = 1
  /\ ~Cached(LastCall.props)
  /\ alloc.failAt # 0 /\ alloc.count >= alloc.failAt
  /\ result.status = ISLA_ERROR_BAD_REALLOC
  /\ result.path.owner = "freed"
  /\ open.owner = "freed" /\ used.owner = "freed"

\* C12: a search whose start and finish are the same node, in default state
\* at the entry, returns ISLA_OK with the path of that node alone (with no
\* allocation refused).
C12_StartIsFinish ==
  (/\ pc = "done"
   /\ LastCall.start = LastCall.finish
   /\ LastCall.entry[LastCall.start] = DefaultNode)
  => /\ result.status = ISLA_OK
     /\ result.path.length = 1
     /\ LastCall.path = <<LastCall.start>>

\* the second search, from node 2 to itself, returned; node 2 has a
\* self-loop and an edge to node 1, which the first search left closed, and
\* the estimate of node 2 to itself is not 0
C12_SelfSearchOnUsedNodes ==
  /\ pc = "done" /\ Len(hist) = 2
  /\ LastCall.start = 2 /\ LastCall.finish = 2
  /\ LastCall.entry[2] = DefaultNode /\ LastCall.entry[1] # DefaultNode
  /\ cost[2][2] # NoEdge /\ cost[2][1] # NoEdge
  /\ est[2][2] # 0
  /\ LastCall.path = <<2>>

\* the sequence s backwards
Backwards(s) == [i \in 1..Len(s) |-> s[Len(s) + 1 - i]]

\* C13: isla_reverse_path is an involution: the reversal of a reversed path
\* is the path before it was reversed, whatever its length; a reversal
\* puts the nodes in the opposite order and changes neither length nor
\* allocated.
C13_ReverseIsInvolution ==
  [][(pc \in {"done", "reversed"} /\ pc' \in {"done", "reversed"} /\ pc' # pc)
     => /\ ReversePath(result'.path) = result.path
        /\ PathSeq(result'.path) = Backwards(PathSeq(result.path))
        /\ result'.path.length = result.path.length
        /\ result'.path.allocated = result.path.allocated]_vars

\* a path of odd length, at least 3, was reversed and is not in the order
\* in which the caller got it
C13_OddPathReversed ==
  /\ pc = "reversed"
  /\ result.path.length = MaxLen
  /\ result.path.length % 2 = 1
  /\ PathSeq(result.path) # Backwards(PathSeq(result.path))

\* the nodes in the live slots of the open list
Live(h) == {h.nodes[i] : i \in 0..(h.length - 1)}

\* the main loop has just removed a node from the open list
JustDequeued == pc = "expand" /\ call.prev = NULL /\ ~call.ub

\* C14: the node that the main loop removes from the open list has an f
\* not greater than the f of any node that is in the open list then.
C14_DequeuedIsMinimum ==
  JustDequeued
  => \A n \in Live(open) : IsNode(n) => node[call.cur].f <= node[n].f

\* edges 1->2 of cost 1 and 1->3 of cost 0, estimate 0, search from 1 to 3:
\* node 2 with f = 1 is removed while node 3 with f = 0 is in the open list
C14_DearerNodeFirst ==
  /\ JustDequeued
  /\ cost[1][2] = 1 /\ cost[1][3] = 0 /\ est = NoEstimate
  /\ call.start = 1 /\ call.finish = 3
  /\ call.cur = 2 /\ node[2].f = 1
  /\ open.length = 1 /\ open.nodes[0] = 3 /\ node[3].f = 0

\* C15: while a search runs, the index of every node in the open list is
\* the slot of the open list that holds the node.
C15_IndexIsSlot ==
  (pc \in {"loop", "expand"} /\ ~call.ub)
  => \A i \in 0..(open.length - 1) :
       IsNode(open.nodes[i]) => node[open.nodes[i]].index = i

\* edges 1->2 of cost 1 and 1->3 of cost 0, estimate 0: once node 1 is
\* expanded the open list holds 2 in slot 0 and 3 in slot 1, while the
\* index of 2 is 1 and the index of 3 is 0, their places in the ledger
C15_IndexIsLedgerPlace ==
  /\ pc = "expand" /\ ~call.ub
  /\ cost[1][2] = 1 /\ cost[1][3] = 0 /\ est = NoEstimate
  /\ call.cur = 1 /\ call.prev = 3
  /\ open.length = 2 /\ open.nodes[0] = 2 /\ open.nodes[1] = 3
  /\ node[2].index = 1 /\ node[3].index = 0
  /\ used.nodes[0] = 3 /\ used.nodes[1] = 2

\* the neighbor that the next turn of the neighbor loop looks at
Looked == NextNeighbor(call.cur, call.prev)

\* the next turn of the neighbor loop discovers or relaxes a neighbor
Relaxes ==
  /\ pc = "expand"
  /\ Looked # NULL
  /\ node[Looked].status # ISLA_NODE_CLOSED
  /\ Improves(node, call, Looked)

\* C16: a neighbor that is discovered or relaxed gets the g of the node
\* expanded plus the cost of the edge, f = g + estimate_cost(neighbor,
\* finish), and the node expanded as its parent.
C16_NeighborValues ==
  [][(Relaxes /\ pc' = "expand")
     => /\ node'[Looked].g = node[call.cur].g + cost[call.cur][Looked]
        /\ node'[Looked].f = node'[Looked].g + est[Looked][call.finish]
        /\ node'[Looked].parent = call.cur]_vars

\* edge 1->2 of cost 1, estimate 1 from node 1 and 0 from node 2, search
\* from 1 to 3: node 2 is discovered with g = 1 and f = 2, the estimate
\* taken from node 1
C16_EstimateOfExpandedNode ==
  /\ pc = "expand" /\ ~call.ub
  /\ call.cur = 1 /\ call.prev = 2 /\ call.finish = 3
  /\ cost[1][2] = 1 /\ est[1][3] = 1 /\ est[2][3] = 0
  /\ node[2].status = ISLA_NODE_OPENED /\ node[2].parent = 1
  /\ node[2].g = 1 /\ node[2].f = 2

\* C17: once a node is closed, and until the call cleans up, the node is
\* in no live slot of the open list and its g, f, parent and status do not
\* change.
C17_ClosedIsFinal ==
  [][(Searching(pc) /\ Searching(pc') /\ ~call'.ub)
     => \A n \in Nodes :
          node[n].status = ISLA_NODE_CLOSED
          => /\ n \notin Live(open')
             /\ node'[n].g = node[n].g
             /\ node'[n].f = node[n].f
             /\ node'[n].parent = node[n].parent
             /\ node'[n].status = node[n].status]_vars

\* edges 1->2, 1->4, 1->5 of cost 0, 1->3 of cost 2 and 2->3 of cost 1,
\* estimate 0, search from 1 to 3: while node 2 is expanded, closed, the
\* update of node 3 puts node 2 back into slot 1 of the 3 live slots
C17_ClosedNodeLiveAgain ==
  /\ pc = "expand" /\ ~call.ub
  /\ cost[1][2] = 0 /\ cost[1][3] = 2 /\ cost[1][4] = 0 /\ cost[1][5] = 0
  /\ cost[2][3] = 1 /\ cost[2][4] = NoEdge /\ cost[2][5] = NoEdge
  /\ call.start = 1 /\ call.finish = 3
  /\ call.cur = 2 /\ call.prev = 3
  /\ node[2].status = ISLA_NODE_CLOSED
  /\ open.length = 3 /\ open.nodes[1] = 2

\* C18: isla__heap_dequeue on an empty list returns NULL and changes
\* nothing; on a list whose live slots are in min-heap order on f it
\* returns a node of least f, makes the list one shorter, and leaves the
\* other nodes in the live slots, in min-heap order again.
C18_DequeueKeepsHeap ==
  [][(pc \in {"heap", "dequeued"} /\ pc' = "dequeued")
     => /\ open.length = 0
           => call'.cur = NULL /\ open' = open /\ node' = node
        /\ (open.length > 0 /\ IsHeap(open, node))
           => /\ call'.cur \in Live(open)
              /\ \A n \in Live(open) : node[call'.cur].f <= node[n].f
              /\ open'.length = open.length - 1
              /\ Live(open') = Live(open) \ {call'.cur}
              /\ Cardinality(Live(open')) = open'.length
              /\ \A n \in Nodes : node'[n].f = node[n].f
              /\ IsHeap(open', node')]_vars

\* a heap of all the nodes, with equal keys among them and a root that is
\* not the only least node, lost its root: the last node went to the root,
\* down to a leaf and up again
C18_RootOfFullHeapRemoved ==
  /\ pc = "dequeued"
  /\ call.cur = 1
  /\ open.length = NumNodes - 1
  /\ open.nodes[0] # NumNodes
  /\ node[open.nodes[0]].f = node[1].f
  /\ \E n \in Live(open) : node[n].f > node[NumNodes].f
  /\ \E i \in 0..(open.length - 1) :
       /\ open.nodes[i] = NumNodes
       /\ 2 * i + 1 < open.length

\* C19: a call of isla_find_path that runs returns in the end; meanwhile no
\* node is put on the open list twice, a turn of the main loop makes the
\* open list one shorter, and the walk of isla__build_path comes to an end.
C19_Terminates ==
  /\ Searching(pc) ~> (pc = "done")
  /\ [](\A n \in Nodes : call.pushes[n] <= 1)
  /\ []((pc = "loop" /\ open.length > 0)
        => HeapDequeue(Mem(open, node)).h.length = open.length - 1)
  /\ [](pc # "hung")

\* edges 1->2 of cost 0, 1->5 of cost 2, 2->3, 2->4 and 2->5 of cost 1,
\* search from 1 to 6: the update of node 5 read a slot of the open list
\* that was never written, and the call ended without a return
C19_CallNeverReturns ==
  /\ pc = "crashed"
  /\ cost[1][2] = 0 /\ cost[1][5] = MaxCost
  /\ cost[2][3] = 1 /\ cost[2][4] = 1 /\ cost[2][5] = 1
  /\ call.start = 1 /\ call.finish = NumNodes
  /\ call.cur = 2 /\ NextNeighbor(call.cur, call.prev) = 5
  /\ node[5].index = 3 /\ open.nodes[3] = Uninit

\* what holds of C19 in every outcome: the call returns or ends at the
\* read of an indeterminate slot
C19_ReturnsOrCrashes ==
  /\ Searching(pc) ~> (pc \in {"done", "crashed"})
  /\ [](\A n \in Nodes : call.pushes[n] <= 1)
  /\ []((pc = "loop" /\ open.length > 0)
        => HeapDequeue(Mem(open, node)).h.length = open.length - 1)
  /\ [](pc # "hung")

\* pc and the frame of a call keep to their values
FrameTyped == pc \in Pcs /\ call \in Frames

\* the next turn of the neighbor loop calls isla__heap_update
Updates == Relaxes /\ node[Looked].status = ISLA_NODE_OPENED

\* C20: whenever isla_find_path calls isla__heap_update(openlist, neighbor),
\* the index of the neighbor is less than the length of the open list, so
\* that no slot beyond the live ones is read or swapped.
C20_UpdateInLiveSlots ==
  Updates => node[Looked].index < open.length

\* edges 1->2, 1->4, 1->5 of cost 0, 1->3 of cost 2 and 2->3 of cost 1,
\* estimate 0, search from 1 to 3: while node 2 is expanded the open list
\* has 3 live slots, slot 3 still holds the dequeued node 2, and the update
\* of node 3 starts from index 3
C20_UpdateFromStaleSlot ==
  /\ Updates /\ ~call.ub
  /\ cost[1][2] = 0 /\ cost[1][3] = 2 /\ cost[1][4] = 0 /\ cost[1][5] = 0
  /\ cost[2][3] = 1
  /\ call.start = 1 /\ call.finish = 3
  /\ call.cur = 2 /\ call.prev = NULL /\ Looked = 3
  /\ open.length = 3 /\ node[3].index = 3 /\ open.nodes[3] = 2
  /\ node[2].status = ISLA_NODE_CLOSED

====
